---- MODULE Spec2Model ----
(***************************************************************************)
(* hARmony (src/index.js): the bundled tonal note parser, interval parser, *)
(* pitch-class-set encoder, dictionaries and chord/scale detector.         *)
(*                                                                         *)
(* JavaScript strings are TLA+ strings (Len, \o and SubSeq act on them).   *)
(* Every other JavaScript value is a record whose single field names its   *)
(* type, so that values of different types can be compared:                *)
(*   Num(n), Str(s), Arr(seq), null, undefined, NaN, Bool(b), Throw,       *)
(*   an object with named properties (a record of such values), and        *)
(*   Inherited(k) for a property found on a prototype.                     *)
(***************************************************************************)
EXTENDS Integers, Sequences, FiniteSets, TLC

VARIABLES call, result, noteCache, ivlCache, engine

vars == <<call, result, noteCache, ivlCache, engine>>

----------------------------------------------------------------------------
(* JavaScript values *)

Num(n) == [number |-> n]
Str(s) == [string |-> s]
Arr(a) == [array |-> a]
Bool(b) == [boolean |-> b]
null == [null |-> TRUE]
undefined == [undefined |-> TRUE]
NaN == [nan |-> TRUE]
Throw == [throw |-> "TypeError"]
Inherited(k) == [inherited |-> k]

IsNum(v) == "number" \in DOMAIN v
IsStr(v) == "string" \in DOMAIN v
IsArr(v) == "array" \in DOMAIN v
Throws(v) == "throw" \in DOMAIN v

\* ToBoolean: what `a || b` and Array.prototype.filter test
Truthy(v) ==
    IF IsNum(v) THEN v.number # 0
    ELSE IF IsStr(v) THEN v.string # ""
    ELSE IF "boolean" \in DOMAIN v THEN v.boolean
    ELSE v \notin {null, undefined, NaN}

\* a || b
Or(a, b) == IF Truthy(a) THEN a ELSE b

\* the % operator on integers: the result takes the sign of the dividend
JsRem(a, b) == IF a >= 0 THEN a % b ELSE -((-a) % b)

\* a + b, a * b on numbers: null counts as 0, undefined and NaN give NaN
ToNum(v) == IF IsNum(v) THEN v ELSE IF v = null THEN Num(0) ELSE NaN
JsAdd(a, b) == IF IsNum(ToNum(a)) /\ IsNum(ToNum(b)) THEN Num(ToNum(a).number + ToNum(b).number) ELSE NaN
JsMul(a, b) == IF IsNum(ToNum(a)) /\ IsNum(ToNum(b)) THEN Num(ToNum(a).number * ToNum(b).number) ELSE NaN
JsMod(a, b) == IF IsNum(ToNum(a)) /\ IsNum(ToNum(b)) /\ ToNum(b).number # 0 THEN Num(JsRem(ToNum(a).number, ToNum(b).number)) ELSE NaN

\* a > b on numbers and null (a comparison with NaN or undefined is false)
JsGt(a, b) == IsNum(ToNum(a)) /\ IsNum(ToNum(b)) /\ ToNum(a).number > ToNum(b).number

----------------------------------------------------------------------------
(* Strings *)

CharAt(s, i) == SubSeq(s, i, i)

Digits == {"0", "1", "2", "3", "4", "5", "6", "7", "8", "9"}
\* \s and the line terminators that `.` does not match, within the alphabet used
Whitespace == {" ", "\n"}
LineTerminators == {"\n"}

\* the first index from i on whose character is not in C (Len(s) + 1 if none)
RECURSIVE RunEnd(_, _, _)
RunEnd(s, i, C) == IF i <= Len(s) /\ CharAt(s, i) \in C THEN RunEnd(s, i + 1, C) ELSE i

\* the first index from i on, below max, whose character is not in C
RunEndMax(s, i, C, max) == LET e == RunEnd(s, i, C) IN IF e > i + max THEN i + max ELSE e

HasCharIn(s, from, C) == \E i \in from..Len(s) : CharAt(s, i) \in C

\* UTF-16 code units of the characters in use: runs of consecutive codes
CodeRuns == << <<10, "\n">>, <<32, " ">>, <<35, "#">>, <<43, "+">>, <<45, "-">>,
               <<48, "0123456789">>, <<65, "ABCDEFGHIJKLMNOPQRSTUVWXYZ">>,
               <<95, "_">>, <<97, "abcdefghijklmnopqrstuvwxyz">> >>
charCode == [c \in UNION {{CharAt(CodeRuns[r][2], i) : i \in 1..Len(CodeRuns[r][2])} : r \in 1..Len(CodeRuns)} |->
                LET r == CHOOSE r \in 1..Len(CodeRuns) : \E i \in 1..Len(CodeRuns[r][2]) : CharAt(CodeRuns[r][2], i) = c
                    i == CHOOSE i \in 1..Len(CodeRuns[r][2]) : CharAt(CodeRuns[r][2], i) = c
                IN  CodeRuns[r][1] + i - 1]

RECURSIVE DigitsVal(_, _)
DigitsVal(s, acc) == IF s = "" THEN acc ELSE DigitsVal(SubSeq(s, 2, Len(s)), 10 * acc + charCode[CharAt(s, 1)] - 48)

\* unary plus on a string of the form [-+]?\d* (any other string in use: NaN)
StringToNumber(s) ==
    LET signed == Len(s) > 0 /\ CharAt(s, 1) \in {"-", "+"}
        digits == IF signed THEN SubSeq(s, 2, Len(s)) ELSE s
    IN  IF s = "" THEN Num(0)
        ELSE IF digits = "" \/ RunEnd(digits, 1, Digits) <= Len(digits) THEN NaN
        ELSE IF CharAt(s, 1) = "-" THEN Num(-DigitsVal(digits, 0)) ELSE Num(DigitsVal(digits, 0))

RECURSIVE NatToString(_)
NatToString(n) == IF n < 10 THEN CharAt("0123456789", n + 1) ELSE NatToString(n \div 10) \o CharAt("0123456789", (n % 10) + 1)

\* "" + n
NumberToString(n) == IF n < 0 THEN "-" \o NatToString(-n) ELSE NatToString(n)

\* the property key a value is converted to (cache[str])
ToKey(v) == IF IsStr(v) THEN v.string ELSE IF v = null THEN "null" ELSE IF v = undefined THEN "undefined" ELSE IF IsNum(v) THEN NumberToString(v.number) ELSE "NaN"

\* a < b by UTF-16 code units, the order of Array.prototype.sort without a comparator
RECURSIVE StrLess(_, _)
StrLess(a, b) ==
    IF b = "" THEN FALSE
    ELSE IF a = "" THEN TRUE
    ELSE IF CharAt(a, 1) = CharAt(b, 1) THEN StrLess(SubSeq(a, 2, Len(a)), SubSeq(b, 2, Len(b)))
    ELSE charCode[CharAt(a, 1)] < charCode[CharAt(b, 1)]

\* Object.keys(obj).sort(): the property names of an object, which are
\* distinct, each at the place given by the number of names below it
SortStrings(S) ==
    LET ranked == {<<Cardinality({y \in S : StrLess(y, x)}), x>> : x \in S}
    IN  [r \in 1..Cardinality(S) |-> (CHOOSE q \in ranked : q[1] = r - 1)[2]]

\* str.split(" ")
RECURSIVE SplitAt(_, _, _)
SplitAt(s, from, i) ==
    IF i > Len(s) THEN <<SubSeq(s, from, Len(s))>>
    ELSE IF CharAt(s, i) = " " THEN <<SubSeq(s, from, i - 1)>> \o SplitAt(s, i + 1, i + 1)
    ELSE SplitAt(s, from, i + 1)
Split(s) == SplitAt(s, 1, 1)

\* arr.join(sep) on an array of values
RECURSIVE Join(_, _)
Join(arr, sep) ==
    IF arr = <<>> THEN ""
    ELSE IF Len(arr) = 1 THEN (IF arr[1] \in {null, undefined} THEN "" ELSE ToKey(arr[1]))
    ELSE (IF arr[1] \in {null, undefined} THEN "" ELSE ToKey(arr[1])) \o sep \o Join(Tail(arr), sep)

\* String(v), as RegExp.prototype.test converts its argument
JsString(v) == IF IsArr(v) THEN Join(v.array, ",") ELSE ToKey(v)

----------------------------------------------------------------------------
(* tonal-note *)

\* own property, else a property inherited from Object.prototype, else undefined
ObjectPrototype == {"constructor", "toString", "toLocaleString", "valueOf", "hasOwnProperty",
                    "isPrototypeOf", "propertyIsEnumerable", "__proto__"}
GetOwnOrInherited(obj, key) ==
    IF key \in DOMAIN obj THEN obj[key]
    ELSE IF key \in ObjectPrototype THEN Inherited(key)
    ELSE undefined

\* obj.field: a parsed object's own field; a prototype function has a name only
Get(obj, field) ==
    IF "inherited" \in DOMAIN obj
    THEN IF field = "name" /\ obj.inherited # "__proto__"
         THEN Str(IF obj.inherited = "constructor" THEN "Object" ELSE obj.inherited)
         ELSE undefined
    ELSE IF field \in DOMAIN obj THEN obj[field] ELSE undefined

Letters == {"a", "b", "c", "d", "e", "f", "g", "A", "B", "C", "D", "E", "F", "G"}

toUpperCase(c) == IF c = "" \/ charCode[c] < 97 THEN c ELSE CharAt("ABCDEFG", charCode[c] - 96)

\* acc.replace(/x/g, "##")
RECURSIVE replaceX(_)
replaceX(acc) == IF acc = "" THEN "" ELSE (IF CharAt(acc, 1) = "x" THEN "##" ELSE CharAt(acc, 1)) \o replaceX(SubSeq(acc, 2, Len(acc)))

\* REGEX.exec(str): ^([a-gA-G]?)(#{1,}|b{1,}|x{1,}|)(-?\d*)\s*(.*)$
\* Each group takes its greedy match; a shorter choice for any group ends the
\* prefix earlier and leaves (.*)$ a longer tail to cover, so the greedy
\* choice is the match whenever there is one.  (.*)$ fails when a line
\* terminator remains: `.` does not match it and `$` is the end of input.
REGEX(str) ==
    LET n  == Len(str)
        p1 == IF n >= 1 /\ CharAt(str, 1) \in Letters THEN 2 ELSE 1
        p2 == IF p1 <= n /\ CharAt(str, p1) \in {"#", "b", "x"} THEN RunEnd(str, p1, {CharAt(str, p1)}) ELSE p1
        p3 == RunEnd(str, IF p2 <= n /\ CharAt(str, p2) = "-" THEN p2 + 1 ELSE p2, Digits)
        p4 == RunEnd(str, p3, Whitespace)
    IN  IF HasCharIn(str, p4, LineTerminators) THEN null
        ELSE Arr(<<SubSeq(str, 1, p1 - 1), SubSeq(str, p1, p2 - 1), SubSeq(str, p2, p3 - 1), SubSeq(str, p4, n)>>)

\* tokenize(str): [letter, accidental, octave, modifier], or null
tokenize_match(m) ==
    IF m = null THEN null
    ELSE Arr(<<toUpperCase(m.array[1]), replaceX(m.array[2]), m.array[3], m.array[4]>>)
tokenize(str) == tokenize_match(REGEX(IF IsStr(str) THEN str.string ELSE ""))

NO_NOTE == [pc |-> null, name |-> null, step |-> null, alt |-> null, oct |-> null,
            octStr |-> null, chroma |-> null, midi |-> null, freq |-> null]

SEMI == <<0, 2, 4, 5, 7, 9, 11>>

\* midiToFreq(midi): 2^((midi - 69) / 12) * 440, kept symbolic (not an integer)
midiToFreq(m) == IF IsNum(m) THEN [freqOfMidi |-> m.number] ELSE IF m = NaN THEN NaN ELSE null

\* a name of the note with its octave left out
properties_fields_without_octave(letter, acc, octStr, step, alt, oct) ==
    [letter |-> Str(letter), acc |-> Str(acc), octStr |-> Str(octStr),
     pc |-> Str(letter \o acc), name |-> Str(letter \o acc),
     step |-> Num(step), alt |-> Num(alt), oct |-> oct,
     chroma |-> Num(JsRem(SEMI[step + 1] + alt + 120, 12)),
     midi |-> IF oct # null THEN JsAdd(Num(SEMI[step + 1] + alt), JsMul(Num(12), JsAdd(oct, Num(1)))) ELSE null,
     freq |-> midiToFreq(IF oct # null THEN JsAdd(Num(SEMI[step + 1] + alt), JsMul(Num(12), JsAdd(oct, Num(1)))) ELSE null)]

\* the object properties(str) fills: p.midi is SEMI[p.step] + p.alt + 12 * (p.oct + 1)
\* when there is an octave, p.freq is midiToFreq(p.midi)
properties_fields(letter, acc, octStr, step, alt, oct) ==
    [letter |-> Str(letter), acc |-> Str(acc), octStr |-> Str(octStr),
     pc |-> Str(letter \o acc), name |-> Str(letter \o acc \o octStr),
     step |-> Num(step), alt |-> Num(alt), oct |-> oct,
     chroma |-> Num(JsRem(SEMI[step + 1] + alt + 120, 12)),
     midi |-> IF oct # null THEN JsAdd(Num(SEMI[step + 1] + alt), JsMul(Num(12), JsAdd(oct, Num(1)))) ELSE null,
     freq |-> midiToFreq(IF oct # null THEN JsAdd(Num(SEMI[step + 1] + alt), JsMul(Num(12), JsAdd(oct, Num(1)))) ELSE null)]

\* properties(str); reading tokens[0] of a null tokenize result throws
properties_tokens(tokens) ==
    IF tokens = null THEN Throw
    ELSE IF tokens.array[1] = "" \/ tokens.array[4] # "" THEN NO_NOTE
    ELSE properties_fields(tokens.array[1], tokens.array[2], tokens.array[3],
                           (charCode[tokens.array[1]] + 3) % 7,
                           IF tokens.array[2] # "" /\ CharAt(tokens.array[2], 1) = "b"
                           THEN -Len(tokens.array[2]) ELSE Len(tokens.array[2]),
                           IF Len(tokens.array[3]) # 0 THEN StringToNumber(tokens.array[3]) ELSE null)
properties(str) == properties_tokens(tokenize(str))

\* memo(fn, cache): cache[str] || (cache[str] = fn(str)), as the value returned
\* and as the cache left behind (nothing is stored when fn throws)
memo(cache, str) ==
    IF Truthy(GetOwnOrInherited(cache, ToKey(str))) THEN GetOwnOrInherited(cache, ToKey(str))
    ELSE properties(str)
memoStore(cache, str) ==
    IF Truthy(GetOwnOrInherited(cache, ToKey(str))) \/ Throws(properties(str)) THEN cache
    ELSE [k \in DOMAIN cache \cup {ToKey(str)} |-> IF k = ToKey(str) THEN properties(str) ELSE cache[k]]

props(cache, str) == memo(cache, str)

\* props(str).field
PropOf(p, field) == IF Throws(p) THEN Throw ELSE Get(p, field)
name(cache, str) == PropOf(props(cache, str), "name")
pc(cache, str) == PropOf(props(cache, str), "pc")
chroma(cache, str) == PropOf(props(cache, str), "chroma")

\* midi(note): props(note).midi || +note || null
midi_props(p, note) ==
    IF Throws(p) THEN Throw
    ELSE Or(Or(Get(p, "midi"), IF IsStr(note) THEN StringToNumber(note.string) ELSE ToNum(note)), null)
midi(cache, note) == midi_props(props(cache, note), note)
----------------------------------------------------------------------------
(* tonal-interval *)

QualityChars == {"d", "m", "M", "P", "A"}

\* a match of [-+]?\d+ starting at i: the index after it, or 0 when there is none
NumberEnd(str, i) ==
    LET d == IF i <= Len(str) /\ CharAt(str, i) \in {"-", "+"} THEN i + 1 ELSE i
        e == RunEnd(str, d, Digits)
    IN  IF e > d THEN e ELSE 0

\* IVL_TNL at the start of the string: ^([-+]?\d+)(d{1,4}|m|M|P|A{1,4}), nothing anchors its end
IVL_TNL(str) ==
    LET e == NumberEnd(str, 1)
        c == IF e = 0 \/ e > Len(str) THEN "" ELSE CharAt(str, e)
        q == IF c \in {"d", "A"} THEN RunEndMax(str, e, {c}, 4) ELSE e + 1
    IN  IF e # 0 /\ c \in QualityChars THEN Arr(<<SubSeq(str, 1, e - 1), SubSeq(str, e, q - 1)>>) ELSE null

\* IVL_STR from index i to the end of the string: (AA|A|P|M|m|d|dd)([-+]?\d+)$
IVL_STR_Qualities == <<"AA", "A", "P", "M", "m", "d", "dd">>
IVL_STR_At(str, i) ==
    LET fits(k) == /\ i + Len(IVL_STR_Qualities[k]) - 1 <= Len(str)
                   /\ SubSeq(str, i, i + Len(IVL_STR_Qualities[k]) - 1) = IVL_STR_Qualities[k]
                   /\ NumberEnd(str, i + Len(IVL_STR_Qualities[k])) = Len(str) + 1
    IN  IF \E k \in 1..Len(IVL_STR_Qualities) : fits(k)
        THEN LET k == CHOOSE k \in 1..Len(IVL_STR_Qualities) :
                          fits(k) /\ \A j \in 1..(k - 1) : ~fits(j)
             IN  Arr(<<SubSeq(str, i + Len(IVL_STR_Qualities[k]), Len(str)), IVL_STR_Qualities[k]>>)
        ELSE null

\* the leftmost index from i on at which IVL_STR matches
RECURSIVE IVL_STR(_, _)
IVL_STR(str, i) ==
    IF i > Len(str) THEN null
    ELSE IF IVL_STR_At(str, i) # null THEN IVL_STR_At(str, i)
    ELSE IVL_STR(str, i + 1)

\* tokenize$1(str): REGEX$1 is ^IVL_TNL|IVL_STR$, so ^ binds to the first
\* alternative only and $ to the second only; [number, quality] or null
tokenize1(str) == IF IVL_TNL(str) # null THEN IVL_TNL(str) ELSE IVL_STR(str, 1)
NO_IVL == [name |-> null, num |-> null, q |-> null, step |-> null, alt |-> null, dir |-> null,
           type |-> null, simple |-> null, semitones |-> null, chroma |-> null]

SIZES == <<0, 2, 4, 5, 7, 9, 11>>
TYPES == "PMMPPMM"

\* SIZES[step], TYPES[step]: undefined outside 0..6
SizeAt(step) == IF step \in 0..6 THEN Num(SIZES[step + 1]) ELSE undefined
TypeAt(step) == IF step \in 0..6 THEN Str(CharAt(TYPES, step + 1)) ELSE undefined

qToAlt(type, q) ==
    IF q = "M" /\ type = Str("M") THEN Num(0)
    ELSE IF q = "P" /\ type = Str("P") THEN Num(0)
    ELSE IF q = "m" /\ type = Str("M") THEN Num(-1)
    ELSE IF RunEnd(q, 1, {"A"}) > Len(q) THEN Num(Len(q))
    ELSE IF RunEnd(q, 1, {"d"}) > Len(q) THEN (IF type = Str("P") THEN Num(-Len(q)) ELSE Num(-Len(q) - 1))
    ELSE null

Abs(n) == IF n < 0 THEN -n ELSE n

numToStep(num) == JsRem(Abs(num) - 1, 7)

\* Math.floor(a / 7)
FloorDiv7(a) == IF a >= 0 THEN a \div 7 ELSE -((-a + 6) \div 7)

properties1_tokens(t) ==
    IF t = null THEN NO_IVL
    ELSE LET num  == StringToNumber(t.array[1]).number
             q    == t.array[2]
             step == numToStep(num)
             type == TypeAt(step)
             dir  == IF num < 0 THEN -1 ELSE 1
             alt  == qToAlt(type, q)
             oct  == FloorDiv7(Abs(num) - 1)
         IN  IF type = Str("M") /\ q = "P" THEN NO_IVL
             ELSE [num |-> Num(num), q |-> Str(q), step |-> Num(step), type |-> type,
                   name |-> Str(NumberToString(num) \o q),
                   dir |-> Num(dir),
                   simple |-> IF num = 8 \/ num = -8 THEN Num(num) ELSE Num(dir * (step + 1)),
                   alt |-> alt,
                   oct |-> Num(oct),
                   semitones |-> JsMul(Num(dir), JsAdd(JsAdd(SizeAt(step), alt), Num(12 * oct))),
                   chroma |-> JsMod(JsAdd(JsMod(JsMul(Num(dir), JsAdd(SizeAt(step), alt)), Num(12)), Num(12)), Num(12))]
properties1(str) == properties1_tokens(tokenize1(str))

\* props$1(str): cache[str] || (cache[str] = properties$1(str)), for strings only
props1(cache, str) ==
    IF ~IsStr(str) THEN NO_IVL
    ELSE IF Truthy(GetOwnOrInherited(cache, str.string)) THEN GetOwnOrInherited(cache, str.string)
    ELSE properties1(str.string)
props1Store(cache, str) ==
    IF ~IsStr(str) \/ Truthy(GetOwnOrInherited(cache, str.string)) THEN cache
    ELSE [k \in DOMAIN cache \cup {str.string} |-> IF k = str.string THEN properties1(str.string) ELSE cache[k]]
chroma1(cache, str) == Get(props1(cache, str), "chroma")

----------------------------------------------------------------------------
(* tonal-array *)

\* a rotation the other way round
rotate_backwards(times, arr) ==
    LET len == Len(arr)
        n   == JsRem(JsRem(times, len) + len, len)
    IN  IF len = 0 THEN <<>> ELSE SubSeq(arr, len - n + 1, len) \o SubSeq(arr, 1, len - n)

\* rotate(times, arr); on an empty array n is NaN and both slices are empty
rotate(times, arr) ==
    LET len == Len(arr)
        n   == JsRem(JsRem(times, len) + len, len)
    IN  IF len = 0 THEN <<>> ELSE SubSeq(arr, n + 1, len) \o SubSeq(arr, 1, n)

IsKept(n) == n = Num(0) \/ Truthy(n)
compact(arr) == SelectSeq(arr, IsKept)

\* height(n): midi(n), or the midi of the pitch class in octave -100
height(cache, n) ==
    IF midi(cache, n) # null THEN midi(cache, n) ELSE midi(cache, Str(JsString(n) \o "-100"))

\* the comparator sort passes: a boolean, which the sort reads as 1 or 0
compareHeights(cache, a, b) == IF JsGt(height(cache, a), height(cache, b)) THEN 1 ELSE 0

\* Array.prototype.sort with that comparator.  It never returns a negative
\* number, so it is not a consistent comparator and the order is left to the
\* implementation.  Two implementations:
\*  "insertion": insertion sort moving an element left past every tmp with
\*               comparefn(tmp, element) > 0 (arrays of up to 10 elements)
\*  "binary":    the leading run ends at the first comparefn(current, previous) < 0
\*               (a run that starts with such a pair is descending and reversed),
\*               the rest is inserted by binary search on comparefn(pivot, mid) < 0
Engines == {"insertion", "binary"}

RECURSIVE InsertLeft(_, _, _)
InsertLeft(cache, sorted, element) ==
    IF sorted # <<>> /\ compareHeights(cache, sorted[Len(sorted)], element) > 0
    THEN InsertLeft(cache, SubSeq(sorted, 1, Len(sorted) - 1), element) \o <<sorted[Len(sorted)]>>
    ELSE sorted \o <<element>>

RECURSIVE InsertionSort(_, _, _)
InsertionSort(cache, arr, i) ==
    IF i > Len(arr) THEN arr
    ELSE InsertionSort(cache, InsertLeft(cache, SubSeq(arr, 1, i - 1), arr[i]) \o SubSeq(arr, i + 1, Len(arr)), i + 1)

RECURSIVE RunLength(_, _, _, _)
RunLength(cache, arr, descending, idx) ==
    IF idx > Len(arr) THEN Len(arr)
    ELSE IF descending = (compareHeights(cache, arr[idx], arr[idx - 1]) < 0) THEN RunLength(cache, arr, descending, idx + 1)
    ELSE idx - 1

Reverse(arr) == [i \in 1..Len(arr) |-> arr[Len(arr) + 1 - i]]

RECURSIVE BinarySearch(_, _, _, _, _)
BinarySearch(cache, arr, pivot, left, right) ==
    IF left >= right THEN left
    ELSE IF compareHeights(cache, pivot, arr[left + ((right - left) \div 2)]) < 0
    THEN BinarySearch(cache, arr, pivot, left, left + ((right - left) \div 2))
    ELSE BinarySearch(cache, arr, pivot, left + ((right - left) \div 2) + 1, right)

\* arr[start] moved left to the index left
MoveLeft(arr, start, left) ==
    SubSeq(arr, 1, left - 1) \o <<arr[start]>> \o SubSeq(arr, left, start - 1) \o SubSeq(arr, start + 1, Len(arr))

RECURSIVE BinaryInsertionSort(_, _, _)
BinaryInsertionSort(cache, arr, start) ==
    IF start > Len(arr) THEN arr
    ELSE BinaryInsertionSort(cache, MoveLeft(arr, start, BinarySearch(cache, arr, arr[start], 1, start)), start + 1)

\* the leading run made ascending, then the rest inserted
SortFromRun(cache, arr, descending, run) ==
    BinaryInsertionSort(cache,
        IF descending THEN Reverse(SubSeq(arr, 1, run)) \o SubSeq(arr, run + 1, Len(arr)) ELSE arr,
        run + 1)
SortRun(cache, arr, descending) == SortFromRun(cache, arr, descending, RunLength(cache, arr, descending, 3))

ArraySort(eng, cache, arr) ==
    IF Len(arr) < 2 THEN arr
    ELSE IF eng = "insertion" THEN InsertionSort(cache, arr, 2)
    ELSE SortRun(cache, arr, compareHeights(cache, arr[2], arr[1]) < 0)

\* src.map(name)
MapName(cache, src) == [i \in 1..Len(src) |-> name(cache, src[i])]

\* sort(src): compact(src.map(name)).sort((a, b) => height(a) > height(b)),
\* Throw when a name throws
sort(eng, cache, src) ==
    IF \E i \in 1..Len(src) : Throws(MapName(cache, src)[i]) THEN Throw
    ELSE Arr(ArraySort(eng, cache, compact(MapName(cache, src))))

----------------------------------------------------------------------------
(* tonal-pcset *)

\* chr(str): chroma(str) || chroma$1(str) || 0
chr(nc, ic, str) ==
    IF Throws(chroma(nc, str)) THEN Throw
    ELSE Or(Or(chroma(nc, str), chroma1(ic, str)), Num(0))

\* isChroma(set): /^[01]{12}$/.test(set), which tests String(set)
isChroma(set) == Len(JsString(set)) = 12 /\ RunEnd(JsString(set), 1, {"0", "1"}) = 13

\* b.join("") after b[i] = 1 for every i of is
RECURSIVE BitString(_, _)
BitString(is, k) == IF k > 11 THEN "" ELSE (IF Num(k) \in is THEN "1" ELSE "0") \o BitString(is, k + 1)

\* chroma$2(set): a chroma is returned as it is, any other non-array gives ""
chroma2(nc, ic, set) ==
    IF isChroma(set) THEN set
    ELSE IF ~IsArr(set) THEN Str("")
    ELSE IF \E i \in 1..Len(set.array) : Throws(chr(nc, ic, set.array[i])) THEN Throw
    ELSE Str(BitString({chr(nc, ic, set.array[i]) : i \in 1..Len(set.array)}, 0))

\* str.split("")
Chars(str) == [i \in 1..Len(str) |-> CharAt(str, i)]

RECURSIVE Concat(_)
Concat(chars) == IF chars = <<>> THEN "" ELSE Head(chars) \o Concat(Tail(chars))

\* modes(set, normalize); an array has no split method
modes_chroma(c, normalize) ==
    IF Throws(c) \/ ~IsStr(c) THEN Throw
    ELSE Arr(compact([i \in 1..Len(c.string) |->
             IF normalize # Bool(FALSE) /\ rotate(i - 1, Chars(c.string))[1] = "0" THEN null
             ELSE Str(Concat(rotate(i - 1, Chars(c.string))))]))
modes(nc, ic, set, normalize) == modes_chroma(chroma2(nc, ic, set), normalize)

----------------------------------------------------------------------------
(* tonal-dictionary *)

\* properties every array has beside its elements (those named by the calls modelled)
ArrayPrototype == ObjectPrototype \cup {"concat", "filter", "forEach", "indexOf", "join", "map", "pop",
                                       "push", "reverse", "shift", "slice", "sort", "splice"}

\* no parse has been cached when the dictionaries are built from tokens of
\* the form number-quality, none of which is a key of Object.prototype
NoCache == [k \in {} |-> null]

\* raw[key]: the entry of the table with that key, <<key, ivls string, aliases>>
Entry(raw, key) == raw[CHOOSE i \in 1..Len(raw) : raw[i][1] = key]

StrArr(seq) == Arr([i \in 1..Len(seq) |-> Str(seq[i])])

\* keys.forEach(...): what the k-th key encodes, ivls and chr
Rows(raw, keys) ==
    {[k |-> k, ivls |-> Split(Entry(raw, keys[k])[2]), alias |-> Entry(raw, keys[k])[3],
      chr |-> JsString(chroma2(NoCache, NoCache, StrArr(Split(Entry(raw, keys[k])[2]))))]
        : k \in 1..Len(keys)}

\* the calls of add(name, ivls, chroma): for the k-th key the key itself
\* (j = 0), then its j-th alias
Adds(raw, keys) ==
    UNION {{[k |-> row.k, j |-> j, name |-> IF j = 0 THEN keys[row.k] ELSE row.alias[j],
             ivls |-> row.ivls, chr |-> row.chr] : j \in 0..Len(row.alias)} : row \in Rows(raw, keys)}
\* an order of calls in which the aliases of a key come last first
Before_reversed(r, s) == r.k < s.k \/ (r.k = s.k /\ r.j > s.j)
Before(r, s) == r.k < s.k \/ (r.k = s.k /\ r.j < s.j)

\* a data that keeps the canonical names only
add_data_canonical(adds) ==
    [n \in {r.name : r \in {r \in adds : r.j = 0}} |-> (CHOOSE r \in adds : r.j = 0 /\ r.name = n).ivls]

\* data[name] = ivls: the last call of add with a name decides
add_data(adds) ==
    [n \in {r.name : r \in adds} |->
        (CHOOSE r \in adds : r.name = n /\ \A s \in adds : s.name = n => ~Before(r, s)).ivls]

\* index[chroma].push(name): the names added under a chroma, in the order of the calls
add_index(adds) ==
    [c \in {r.chr : r \in adds} |->
        LET R == {r \in adds : r.chr = c}
        IN  [i \in 1..Cardinality(R) |-> (CHOOSE r \in R : Cardinality({s \in R : Before(s, r)}) = i - 1).name]]

\* dictionary(raw), raw a sequence of <<key, intervals, aliases>>
dictionary_adds(keys, adds) ==
    [keys |-> keys, data |-> add_data(adds), index |-> add_index(adds),
     allKeys |-> SortStrings(DOMAIN add_data(adds))]
dictionary(raw) ==
    dictionary_adds(SortStrings({raw[i][1] : i \in 1..Len(raw)}),
                    Adds(raw, SortStrings({raw[i][1] : i \in 1..Len(raw)})))

\* data.length: one more than the largest array index among the names
IsArrayIndex(k) == k # "" /\ RunEnd(k, 1, Digits) > Len(k) /\ (CharAt(k, 1) # "0" \/ k = "0")
ArrayLength(data) ==
    LET idx == {DigitsVal(k, 0) : k \in {k \in DOMAIN data : IsArrayIndex(k)}}
    IN  IF idx = {} THEN 0 ELSE 1 + CHOOSE m \in idx : \A j \in idx : j <= m

\* dict(name): data[name], data being an array used as a map
lookup(dict, n) ==
    IF n \in DOMAIN dict.data THEN StrArr(dict.data[n])
    ELSE IF n = "length" THEN Num(ArrayLength(dict.data))
    ELSE IF n \in ArrayPrototype THEN Inherited(n)
    ELSE undefined

\* dict.names(p); a function inherited by the index array has no slice method
names(dict, p) ==
    IF IsStr(p)
    THEN IF p.string \in DOMAIN dict.index THEN StrArr(dict.index[p.string])
         ELSE IF p.string \in ArrayPrototype \ {"__proto__"} THEN Throw
         ELSE Arr(<<>>)
    ELSE IF p = Bool(TRUE) THEN StrArr(dict.allKeys)
    ELSE StrArr(dict.keys)

\* combine(a, b): dict(name) is a(name) || b(name), dict.names(p) is
\* a.names(p).concat(b.names(p))
combine_lookup(a, b, n) == Or(lookup(a, n), lookup(b, n))
combine_names(a, b, p) ==
    IF Throws(names(a, p)) \/ Throws(names(b, p)) THEN Throw
    ELSE Arr(names(a, p).array \o names(b, p).array)

\* the scale table: <<name, intervals, aliases>> for every property of sdata
sdata == <<
    <<"chromatic", "1P 2m 2M 3m 3M 4P 4A 5P 6m 6M 7m 7M", <<>>>>,
    <<"lydian", "1P 2M 3M 4A 5P 6M 7M", <<>>>>,
    <<"major", "1P 2M 3M 4P 5P 6M 7M", <<"ionian">>>>,
    <<"mixolydian", "1P 2M 3M 4P 5P 6M 7m", <<"dominant">>>>,
    <<"dorian", "1P 2M 3m 4P 5P 6M 7m", <<>>>>,
    <<"aeolian", "1P 2M 3m 4P 5P 6m 7m", <<"minor">>>>,
    <<"phrygian", "1P 2m 3m 4P 5P 6m 7m", <<>>>>,
    <<"locrian", "1P 2m 3m 4P 5d 6m 7m", <<>>>>,
    <<"melodic minor", "1P 2M 3m 4P 5P 6M 7M", <<>>>>,
    <<"melodic minor second mode", "1P 2m 3m 4P 5P 6M 7m", <<>>>>,
    <<"lydian augmented", "1P 2M 3M 4A 5A 6M 7M", <<>>>>,
    <<"lydian dominant", "1P 2M 3M 4A 5P 6M 7m", <<"lydian b7">>>>,
    <<"melodic minor fifth mode", "1P 2M 3M 4P 5P 6m 7m", <<"hindu", "mixolydian b6M">>>>,
    <<"locrian #2", "1P 2M 3m 4P 5d 6m 7m", <<>>>>,
    <<"locrian major", "1P 2M 3M 4P 5d 6m 7m", <<"arabian">>>>,
    <<"altered", "1P 2m 3m 3M 5d 6m 7m", <<"super locrian", "diminished whole tone", "pomeroy">>>>,
    <<"major pentatonic", "1P 2M 3M 5P 6M", <<"pentatonic">>>>,
    <<"lydian pentatonic", "1P 3M 4A 5P 7M", <<"chinese">>>>,
    <<"mixolydian pentatonic", "1P 3M 4P 5P 7m", <<"indian">>>>,
    <<"locrian pentatonic", "1P 3m 4P 5d 7m", <<"minor seven flat five pentatonic">>>>,
    <<"minor pentatonic", "1P 3m 4P 5P 7m", <<>>>>,
    <<"minor six pentatonic", "1P 3m 4P 5P 6M", <<>>>>,
    <<"minor hexatonic", "1P 2M 3m 4P 5P 7M", <<>>>>,
    <<"flat three pentatonic", "1P 2M 3m 5P 6M", <<"kumoi">>>>,
    <<"flat six pentatonic", "1P 2M 3M 5P 6m", <<>>>>,
    <<"major flat two pentatonic", "1P 2m 3M 5P 6M", <<>>>>,
    <<"whole tone pentatonic", "1P 3M 5d 6m 7m", <<>>>>,
    <<"ionian pentatonic", "1P 3M 4P 5P 7M", <<>>>>,
    <<"lydian #5P pentatonic", "1P 3M 4A 5A 7M", <<>>>>,
    <<"lydian dominant pentatonic", "1P 3M 4A 5P 7m", <<>>>>,
    <<"minor #7M pentatonic", "1P 3m 4P 5P 7M", <<>>>>,
    <<"super locrian pentatonic", "1P 3m 4d 5d 7m", <<>>>>,
    <<"in-sen", "1P 2m 4P 5P 7m", <<>>>>,
    <<"iwato", "1P 2m 4P 5d 7m", <<>>>>,
    <<"hirajoshi", "1P 2M 3m 5P 6m", <<>>>>,
    <<"kumoijoshi", "1P 2m 4P 5P 6m", <<>>>>,
    <<"pelog", "1P 2m 3m 5P 6m", <<>>>>,
    <<"vietnamese 1", "1P 3m 4P 5P 6m", <<>>>>,
    <<"vietnamese 2", "1P 3m 4P 5P 7m", <<>>>>,
    <<"prometheus", "1P 2M 3M 4A 6M 7m", <<>>>>,
    <<"prometheus neopolitan", "1P 2m 3M 4A 6M 7m", <<>>>>,
    <<"ritusen", "1P 2M 4P 5P 6M", <<>>>>,
    <<"scriabin", "1P 2m 3M 5P 6M", <<>>>>,
    <<"piongio", "1P 2M 4P 5P 6M 7m", <<>>>>,
    <<"major blues", "1P 2M 3m 3M 5P 6M", <<>>>>,
    <<"minor blues", "1P 3m 4P 5d 5P 7m", <<"blues">>>>,
    <<"composite blues", "1P 2M 3m 3M 4P 5d 5P 6M 7m", <<>>>>,
    <<"augmented", "1P 2A 3M 5P 5A 7M", <<>>>>,
    <<"augmented heptatonic", "1P 2A 3M 4P 5P 5A 7M", <<>>>>,
    <<"dorian #4", "1P 2M 3m 4A 5P 6M 7m", <<>>>>,
    <<"lydian diminished", "1P 2M 3m 4A 5P 6M 7M", <<>>>>,
    <<"whole tone", "1P 2M 3M 4A 5A 7m", <<>>>>,
    <<"leading whole tone", "1P 2M 3M 4A 5A 7m 7M", <<>>>>,
    <<"harmonic minor", "1P 2M 3m 4P 5P 6m 7M", <<>>>>,
    <<"lydian minor", "1P 2M 3M 4A 5P 6m 7m", <<>>>>,
    <<"neopolitan", "1P 2m 3m 4P 5P 6m 7M", <<>>>>,
    <<"neopolitan minor", "1P 2m 3m 4P 5P 6m 7M", <<>>>>,
    <<"neopolitan major", "1P 2m 3m 4P 5P 6M 7M", <<"dorian b2">>>>,
    <<"neopolitan major pentatonic", "1P 3M 4P 5d 7m", <<>>>>,
    <<"romanian minor", "1P 2M 3m 5d 5P 6M 7m", <<>>>>,
    <<"double harmonic lydian", "1P 2m 3M 4A 5P 6m 7M", <<>>>>,
    <<"diminished", "1P 2M 3m 4P 5d 6m 6M 7M", <<>>>>,
    <<"harmonic major", "1P 2M 3M 4P 5P 6m 7M", <<>>>>,
    <<"double harmonic major", "1P 2m 3M 4P 5P 6m 7M", <<"gypsy">>>>,
    <<"egyptian", "1P 2M 4P 5P 7m", <<>>>>,
    <<"hungarian minor", "1P 2M 3m 4A 5P 6m 7M", <<>>>>,
    <<"hungarian major", "1P 2A 3M 4A 5P 6M 7m", <<>>>>,
    <<"oriental", "1P 2m 3M 4P 5d 6M 7m", <<>>>>,
    <<"spanish", "1P 2m 3M 4P 5P 6m 7m", <<"phrygian major">>>>,
    <<"spanish heptatonic", "1P 2m 3m 3M 4P 5P 6m 7m", <<>>>>,
    <<"flamenco", "1P 2m 3m 3M 4A 5P 7m", <<>>>>,
    <<"balinese", "1P 2m 3m 4P 5P 6m 7M", <<>>>>,
    <<"todi raga", "1P 2m 3m 4A 5P 6m 7M", <<>>>>,
    <<"malkos raga", "1P 3m 4P 6m 7m", <<>>>>,
    <<"kafi raga", "1P 3m 3M 4P 5P 6M 7m 7M", <<>>>>,
    <<"purvi raga", "1P 2m 3M 4P 4A 5P 6m 7M", <<>>>>,
    <<"persian", "1P 2m 3M 4P 5d 6m 7M", <<>>>>,
    <<"bebop", "1P 2M 3M 4P 5P 6M 7m 7M", <<>>>>,
    <<"bebop dominant", "1P 2M 3M 4P 5P 6M 7m 7M", <<>>>>,
    <<"bebop minor", "1P 2M 3m 3M 4P 5P 6M 7m", <<>>>>,
    <<"bebop major", "1P 2M 3M 4P 5P 5A 6M 7M", <<>>>>,
    <<"bebop locrian", "1P 2m 3m 4P 5d 5P 6m 7m", <<>>>>,
    <<"minor bebop", "1P 2M 3m 4P 5P 6m 7m 7M", <<>>>>,
    <<"mystery #1", "1P 2m 3M 5d 6m 7m", <<>>>>,
    <<"enigmatic", "1P 2m 3M 5d 6m 7m 7M", <<>>>>,
    <<"minor six diminished", "1P 2M 3m 4P 5P 6m 6M 7M", <<>>>>,
    <<"ionian augmented", "1P 2M 3M 4P 5A 6M 7M", <<>>>>,
    <<"lydian #9", "1P 2m 3M 4A 5P 6M 7M", <<>>>>,
    <<"ichikosucho", "1P 2M 3M 4P 5d 5P 6M 7M", <<>>>>,
    <<"six tone symmetric", "1P 2m 3M 4P 5A 6M", <<>>>>
>>

\* the chord table: <<name, intervals, aliases>> for every property of cdata
cdata == <<
    <<"4", "1P 4P 7m 10m", <<"quartal">>>>,
    <<"5", "1P 5P", <<>>>>,
    <<"7", "1P 3M 5P 7m", <<"Dominant", "Dom">>>>,
    <<"9", "1P 3M 5P 7m 9M", <<"79">>>>,
    <<"11", "1P 5P 7m 9M 11P", <<>>>>,
    <<"13", "1P 3M 5P 7m 9M 13M", <<"13_">>>>,
    <<"64", "5P 8P 10M", <<>>>>,
    <<"M", "1P 3M 5P", <<"Major", "">>>>,
    <<"M#5", "1P 3M 5A", <<"augmented", "maj#5", "Maj#5", "+", "aug">>>>,
    <<"M#5add9", "1P 3M 5A 9M", <<"+add9">>>>,
    <<"M13", "1P 3M 5P 7M 9M 13M", <<"maj13", "Maj13">>>>,
    <<"M13#11", "1P 3M 5P 7M 9M 11A 13M", <<"maj13#11", "Maj13#11", "M13+4", "M13#4">>>>,
    <<"M6", "1P 3M 5P 13M", <<"6">>>>,
    <<"M6#11", "1P 3M 5P 6M 11A", <<"M6b5", "6#11", "6b5">>>>,
    <<"M69", "1P 3M 5P 6M 9M", <<"69">>>>,
    <<"M69#11", "1P 3M 5P 6M 9M 11A", <<>>>>,
    <<"M7#11", "1P 3M 5P 7M 11A", <<"maj7#11", "Maj7#11", "M7+4", "M7#4">>>>,
    <<"M7#5", "1P 3M 5A 7M", <<"maj7#5", "Maj7#5", "maj9#5", "M7+">>>>,
    <<"M7#5sus4", "1P 4P 5A 7M", <<>>>>,
    <<"M7#9#11", "1P 3M 5P 7M 9A 11A", <<>>>>,
    <<"M7add13", "1P 3M 5P 6M 7M 9M", <<>>>>,
    <<"M7b5", "1P 3M 5d 7M", <<>>>>,
    <<"M7b6", "1P 3M 6m 7M", <<>>>>,
    <<"M7b9", "1P 3M 5P 7M 9m", <<>>>>,
    <<"M7sus4", "1P 4P 5P 7M", <<>>>>,
    <<"M9", "1P 3M 5P 7M 9M", <<"maj9", "Maj9">>>>,
    <<"M9#11", "1P 3M 5P 7M 9M 11A", <<"maj9#11", "Maj9#11", "M9+4", "M9#4">>>>,
    <<"M9#5", "1P 3M 5A 7M 9M", <<"Maj9#5">>>>,
    <<"M9#5sus4", "1P 4P 5A 7M 9M", <<>>>>,
    <<"M9b5", "1P 3M 5d 7M 9M", <<>>>>,
    <<"M9sus4", "1P 4P 5P 7M 9M", <<>>>>,
    <<"Madd9", "1P 3M 5P 9M", <<"2", "add9", "add2">>>>,
    <<"Maj7", "1P 3M 5P 7M", <<"maj7", "M7">>>>,
    <<"Mb5", "1P 3M 5d", <<>>>>,
    <<"Mb6", "1P 3M 13m", <<>>>>,
    <<"Msus2", "1P 2M 5P", <<"add9no3", "sus2">>>>,
    <<"Msus4", "1P 4P 5P", <<"sus", "sus4">>>>,
    <<"Maddb9", "1P 3M 5P 9m", <<>>>>,
    <<"11b9", "1P 5P 7m 9m 11P", <<>>>>,
    <<"13#11", "1P 3M 5P 7m 9M 11A 13M", <<"13+4", "13#4">>>>,
    <<"13#9", "1P 3M 5P 7m 9A 13M", <<"13#9_">>>>,
    <<"13#9#11", "1P 3M 5P 7m 9A 11A 13M", <<>>>>,
    <<"13b5", "1P 3M 5d 6M 7m 9M", <<>>>>,
    <<"13b9", "1P 3M 5P 7m 9m 13M", <<>>>>,
    <<"13b9#11", "1P 3M 5P 7m 9m 11A 13M", <<>>>>,
    <<"13no5", "1P 3M 7m 9M 13M", <<>>>>,
    <<"13sus4", "1P 4P 5P 7m 9M 13M", <<"13sus">>>>,
    <<"69#11", "1P 3M 5P 6M 9M 11A", <<>>>>,
    <<"7#11", "1P 3M 5P 7m 11A", <<"7+4", "7#4", "7#11_", "7#4_">>>>,
    <<"7#11b13", "1P 3M 5P 7m 11A 13m", <<"7b5b13">>>>,
    <<"7#5", "1P 3M 5A 7m", <<"+7", "7aug", "aug7">>>>,
    <<"7#5#9", "1P 3M 5A 7m 9A", <<"7alt", "7#5#9_", "7#9b13_">>>>,
    <<"7#5b9", "1P 3M 5A 7m 9m", <<>>>>,
    <<"7#5b9#11", "1P 3M 5A 7m 9m 11A", <<>>>>,
    <<"7#5sus4", "1P 4P 5A 7m", <<>>>>,
    <<"7#9", "1P 3M 5P 7m 9A", <<"7#9_">>>>,
    <<"7#9#11", "1P 3M 5P 7m 9A 11A", <<"7b5#9">>>>,
    <<"7#9#11b13", "1P 3M 5P 7m 9A 11A 13m", <<>>>>,
    <<"7#9b13", "1P 3M 5P 7m 9A 13m", <<>>>>,
    <<"7add6", "1P 3M 5P 7m 13M", <<"67", "7add13">>>>,
    <<"7b13", "1P 3M 7m 13m", <<>>>>,
    <<"7b5", "1P 3M 5d 7m", <<>>>>,
    <<"7b6", "1P 3M 5P 6m 7m", <<>>>>,
    <<"7b9", "1P 3M 5P 7m 9m", <<>>>>,
    <<"7b9#11", "1P 3M 5P 7m 9m 11A", <<"7b5b9">>>>,
    <<"7b9#9", "1P 3M 5P 7m 9m 9A", <<>>>>,
    <<"7b9b13", "1P 3M 5P 7m 9m 13m", <<>>>>,
    <<"7b9b13#11", "1P 3M 5P 7m 9m 11A 13m", <<"7b9#11b13", "7b5b9b13">>>>,
    <<"7no5", "1P 3M 7m", <<>>>>,
    <<"7sus4", "1P 4P 5P 7m", <<"7sus">>>>,
    <<"7sus4b9", "1P 4P 5P 7m 9m", <<"susb9", "7susb9", "7b9sus", "7b9sus4", "phryg">>>>,
    <<"7sus4b9b13", "1P 4P 5P 7m 9m 13m", <<"7b9b13sus4">>>>,
    <<"9#11", "1P 3M 5P 7m 9M 11A", <<"9+4", "9#4", "9#11_", "9#4_">>>>,
    <<"9#11b13", "1P 3M 5P 7m 9M 11A 13m", <<"9b5b13">>>>,
    <<"9#5", "1P 3M 5A 7m 9M", <<"9+">>>>,
    <<"9#5#11", "1P 3M 5A 7m 9M 11A", <<>>>>,
    <<"9b13", "1P 3M 7m 9M 13m", <<>>>>,
    <<"9b5", "1P 3M 5d 7m 9M", <<>>>>,
    <<"9no5", "1P 3M 7m 9M", <<>>>>,
    <<"9sus4", "1P 4P 5P 7m 9M", <<"9sus">>>>,
    <<"m", "1P 3m 5P", <<>>>>,
    <<"m#5", "1P 3m 5A", <<"m+", "mb6">>>>,
    <<"m11", "1P 3m 5P 7m 9M 11P", <<"_11">>>>,
    <<"m11A 5", "1P 3m 6m 7m 9M 11P", <<>>>>,
    <<"m11b5", "1P 3m 7m 12d 2M 4P", <<"h11", "_11b5">>>>,
    <<"m13", "1P 3m 5P 7m 9M 11P 13M", <<"_13">>>>,
    <<"m6", "1P 3m 4P 5P 13M", <<"_6">>>>,
    <<"m69", "1P 3m 5P 6M 9M", <<"_69">>>>,
    <<"m7", "1P 3m 5P 7m", <<"minor7", "_", "_7">>>>,
    <<"m7#5", "1P 3m 6m 7m", <<>>>>,
    <<"m7add11", "1P 3m 5P 7m 11P", <<"m7add4">>>>,
    <<"m7b5", "1P 3m 5d 7m", <<"half-diminished", "h7", "_7b5">>>>,
    <<"m9", "1P 3m 5P 7m 9M", <<"_9">>>>,
    <<"m9#5", "1P 3m 6m 7m 9M", <<>>>>,
    <<"m9b5", "1P 3m 7m 12d 2M", <<"h9", "-9b5">>>>,
    <<"mMaj7", "1P 3m 5P 7M", <<"mM7", "_M7">>>>,
    <<"mMaj7b6", "1P 3m 5P 6m 7M", <<"mM7b6">>>>,
    <<"mM9", "1P 3m 5P 7M 9M", <<"mMaj9", "-M9">>>>,
    <<"mM9b6", "1P 3m 5P 6m 7M 9M", <<"mMaj9b6">>>>,
    <<"mb6M7", "1P 3m 6m 7M", <<>>>>,
    <<"mb6b9", "1P 3m 6m 9m", <<>>>>,
    <<"o", "1P 3m 5d", <<"mb5", "dim">>>>,
    <<"o7", "1P 3m 5d 13M", <<"diminished", "m6b5", "dim7">>>>,
    <<"o7M7", "1P 3m 5d 6M 7M", <<>>>>,
    <<"oM7", "1P 3m 5d 7M", <<>>>>,
    <<"sus24", "1P 2M 4P 5P", <<"sus4add9">>>>,
    <<"+add#9", "1P 3M 5A 9A", <<>>>>,
    <<"madd4", "1P 3m 4P 5P", <<>>>>,
    <<"madd9", "1P 3m 5P 9M", <<>>>>
>>

scale == dictionary(sdata)
chord == dictionary(cdata)

----------------------------------------------------------------------------
(* tonal-detect *)

\* arr[i], undefined past the end (i counts from 0)
ElemAt(arr, i) == IF i + 1 \in 1..Len(arr) THEN arr[i + 1] ELSE undefined

\* builder = builder || defaultBuilder: no builder is passed, so the default
\* one is called, tonic + names[0] for chord$1 and tonic + " " + names[0] for scale$1
builder(defaultBuilder, tonic, ns) ==
    IF defaultBuilder = "chord" THEN Str(JsString(tonic) \o JsString(ElemAt(ns.array, 0)))
    ELSE Str(JsString(tonic) \o " " \o JsString(ElemAt(ns.array, 0)))

\* notes.map(pc)
MapPc(cache, notes) == [i \in 1..Len(notes) |-> pc(cache, notes[i])]

\* sort(notes.map(pc)), Throw when a pc throws
SortedPc(eng, nc, notes) ==
    IF \E i \in 1..Len(notes) : Throws(MapPc(nc, notes)[i]) THEN Throw
    ELSE sort(eng, nc, MapPc(nc, notes))

\* the function detector(dictionary, defaultBuilder) returns, applied to notes
detector_modes(dict, defaultBuilder, nc, sorted, ms) ==
    IF Throws(ms) THEN Throw
    ELSE Arr(SelectSeq([i \in 1..Len(ms.array) |->
                           IF Len(names(dict, ms.array[i]).array) # 0
                           THEN builder(defaultBuilder, name(nc, ElemAt(sorted.array, i - 1)), names(dict, ms.array[i]))
                           ELSE null], Truthy))
detector_sorted(dict, defaultBuilder, nc, ic, sorted) ==
    IF Throws(sorted) THEN Throw
    ELSE detector_modes(dict, defaultBuilder, nc, sorted, modes(nc, ic, sorted, undefined))
detector(dict, defaultBuilder, eng, nc, ic, notes) ==
    detector_sorted(dict, defaultBuilder, nc, ic, SortedPc(eng, nc, notes))
chord1(eng, nc, ic, notes) == detector(chord, "chord", eng, nc, ic, notes)
scale1(eng, nc, ic, notes) == detector(scale, "scale", eng, nc, ic, notes)

----------------------------------------------------------------------------
(* The caches a call leaves behind.  A key is stored on its first parse;    *)
(* the entry stored is the derivation of the key, so a call reads the same  *)
(* values from the cache as it found it.                                    *)

\* cache[k] = fn(k) for every k of keys that is not found in the cache
StoreNotes(cache, keys) ==
    [k \in DOMAIN cache \cup {k \in keys : ~Truthy(GetOwnOrInherited(cache, k))} |->
        IF k \in DOMAIN cache THEN cache[k] ELSE properties(Str(k))]
StoreIntervals(cache, keys) ==
    [k \in DOMAIN cache \cup {k \in keys : ~Truthy(GetOwnOrInherited(cache, k))} |->
        IF k \in DOMAIN cache THEN cache[k] ELSE properties1(k)]

\* the elements of a sequence of strings that are parsed before one throws
ParsedBeforeThrow(nc, strs) ==
    {ToKey(strs[i]) : i \in {i \in 1..Len(strs) : \A j \in 1..i : ~Throws(props(nc, strs[j]))}}

\* set.map(chr): every token is parsed as a note, and as an interval when
\* its note chroma is 0 or missing
ChrNoteKeys(nc, set) == IF isChroma(set) \/ ~IsArr(set) THEN {} ELSE ParsedBeforeThrow(nc, set.array)
ChrIntervalKeys(nc, set) ==
    {k \in {s \in ChrNoteKeys(nc, set) : Str(s) \in {set.array[i] : i \in 1..Len(set.array)}} :
        ~Truthy(chroma(nc, Str(k)))}

\* detector: notes.map(pc), then sort's map(name), then the heights the
\* comparator reads (every element of an array of two or more), then chr
\* (of nothing when a pc has thrown)
SortedNoteKeys(nc, pcs, sorted) ==
    IF Throws(sorted) THEN {}
    ELSE {ToKey(pcs[i]) : i \in 1..Len(pcs)}
           \cup (IF Len(sorted.array) < 2 THEN {}
                 ELSE {sorted.array[i].string \o "-100" :
                          i \in {i \in 1..Len(sorted.array) : midi(nc, sorted.array[i]) = null}})
DetectNoteKeys(eng, nc, notes) ==
    ParsedBeforeThrow(nc, notes) \cup SortedNoteKeys(nc, MapPc(nc, notes), SortedPc(eng, nc, notes))
DetectIntervalKeys(eng, nc, notes) == ChrIntervalKeys(nc, SortedPc(eng, nc, notes))

\* the tokens of a table, which dictionary(raw) encodes
TableTokens(raw) == UNION {{Split(raw[r][2])[i] : i \in 1..Len(Split(raw[r][2]))} : r \in 1..Len(raw)}

----------------------------------------------------------------------------
(* Inputs *)

\* every string of at most n characters of an alphabet
RECURSIVE StringsUpTo(_, _)
StringsUpTo(alphabet, n) ==
    IF n = 0 THEN {""}
    ELSE LET S == StringsUpTo(alphabet, n - 1) IN S \cup {s \o c : s \in S, c \in alphabet}

\* every sequence of at most n elements of a set
RECURSIVE SeqsUpTo(_, _)
SeqsUpTo(S, n) ==
    IF n = 0 THEN {<<>>}
    ELSE LET R == SeqsUpTo(S, n - 1) IN R \cup {Append(r, x) : r \in R, x \in S}

MaxNoteLen == 3
MaxIntervalLen == 3
MaxTokens == 2
MaxNotes == 3
MaxEntries == 2

NoteStrings == StringsUpTo({"C", "b", "#", "x", "4", "-", " ", "\n", "m"}, MaxNoteLen)
                 \cup {"bb2", "a4", "major", "##", "fx-3", "G##4", "C-100", "constructor", "toString",
                       "D", "e", "F", "g", "A"}

IntervalStrings == StringsUpTo({"0", "2", "5", "-", "P", "M", "m", "A", "d"}, MaxIntervalLen)
                     \cup {"4P", "9m", "3P", "8P", "-8P", "15P", "##", "1Px", "xP5", "+5P",
                           "AAAA5", "5AAAA", "5ddddd", "ddd5", "constructor"}

\* tokens given to the encoder: notes, intervals, strings that are neither
Tokens == {"C", "E", "B#", "3M", "5P", "A4", "4A", "x", "m\n", "010000000000"}
TokenSets == {Arr([i \in 1..Len(q) |-> Str(q[i])]) : q \in SeqsUpTo(Tokens, MaxTokens)}
Chromas == {"000000000000", "100000000000", "100010010000", "101011010101", "000100000001", "111111111111"}
Normalize == {undefined, Bool(TRUE), Bool(FALSE)}

\* notes given to the detectors, and the two examples of the documentation
NoteTokens == {"C", "E", "G", "Cb", "B#", "x", "m\n"}
NoteSeqs == SeqsUpTo(NoteTokens, MaxNotes)
              \cup {<<"C", "E", "G", "A">>, <<"F3", "A", "C5", "E2", "D", "G2", "B6">>, <<"E2", "C5">>,
                    <<"C", "C", "E", "G">>}
StrSeq(q) == [i \in 1..Len(q) |-> Str(q[i])]

\* name tables: the two built in, and every table of at most MaxEntries
\* names (listed in ascending order: dictionary sorts the keys it is given)
TableNames == <<"7", "M", "m">>
TableIntervals == {"1P 3M", "1P 5P"}
TableAliases == {<<>>, <<"7">>, <<"M">>, <<"m", "maj">>}
RECURSIVE TablesFrom(_, _)
TablesFrom(k, n) ==
    IF n = 0 \/ k > Len(TableNames) THEN {<<>>}
    ELSE TablesFrom(k + 1, n)
           \cup {<<<<TableNames[k], ivls, alias>>>> \o rest :
                    ivls \in TableIntervals, alias \in TableAliases, rest \in TablesFrom(k + 1, n - 1)}
Tables == TablesFrom(1, MaxEntries) \ {<<>>}
Dictionaries == {[builtin |-> "scale"], [builtin |-> "chord"]} \cup {[table |-> t] : t \in Tables}
IsBuiltin(d) == "builtin" \in DOMAIN d
TableOf(d) == IF IsBuiltin(d) THEN (IF d.builtin = "scale" THEN sdata ELSE cdata) ELSE d.table
DictionaryOf(d) == IF IsBuiltin(d) THEN (IF d.builtin = "scale" THEN scale ELSE chord) ELSE dictionary(d.table)

\* the names a table registers, canonical and alias
RegisteredNames(raw) == UNION {{raw[i][1]} \cup {raw[i][3][j] : j \in 1..Len(raw[i][3])} : i \in 1..Len(raw)}
LookupNames(d) == RegisteredNames(TableOf(d)) \cup {"nope", "length", "push"}
Filters(d) == {Str(fp) : fp \in DOMAIN DictionaryOf(d).index \cup Chromas} \cup {Bool(TRUE), undefined}

\* the tokens of a table as the array dictionary(raw) encodes
TokenArr(raw) == StrArr(SortStrings(TableTokens(raw)))

----------------------------------------------------------------------------
(* The state machine: the module is loaded, then one call is made.          *)
(*  call       the call made, with its arguments                            *)
(*  result     the value it returned, or Throw                              *)
(*  noteCache  the cache of props (tonal-note), by input string             *)
(*  ivlCache   the cache of props$1 (tonal-interval), by input string       *)
(*  engine     the Array.prototype.sort of the JavaScript engine            *)

\* loading the module builds scale, then chord: every token of the tables
\* is parsed as a note and, not being one, as an interval
LoadedNoteCache == StoreNotes(StoreNotes(NoCache, ChrNoteKeys(NoCache, TokenArr(sdata))), ChrNoteKeys(NoCache, TokenArr(cdata)))
LoadedIvlCache == StoreIntervals(StoreIntervals(NoCache, ChrIntervalKeys(NoCache, TokenArr(sdata))), ChrIntervalKeys(NoCache, TokenArr(cdata)))

Init ==
    /\ call = [op |-> "load"]
    /\ result = undefined
    /\ noteCache = LoadedNoteCache
    /\ ivlCache = LoadedIvlCache
    /\ engine \in Engines

\* Note.props(str)
NoteProps ==
    /\ call.op = "load"
    /\ \E s \in NoteStrings :
          /\ call' = [op |-> "Note.props", str |-> s]
          /\ result' = props(noteCache, Str(s))
          /\ noteCache' = memoStore(noteCache, Str(s))
    /\ UNCHANGED <<ivlCache, engine>>

\* Interval.props(str)
IntervalProps ==
    /\ call.op = "load"
    /\ \E s \in IntervalStrings :
          /\ call' = [op |-> "Interval.props", str |-> s]
          /\ result' = props1(ivlCache, Str(s))
          /\ ivlCache' = props1Store(ivlCache, Str(s))
    /\ UNCHANGED <<noteCache, engine>>

PcsetInputs == TokenSets \cup {Str(c) : c \in Chromas} \cup {Str("C E")}

\* PcSet.chroma(set)
PcsetChroma ==
    /\ call.op = "load"
    /\ \E set \in PcsetInputs :
          /\ call' = [op |-> "PcSet.chroma", set |-> set]
          /\ result' = chroma2(noteCache, ivlCache, set)
          /\ noteCache' = StoreNotes(noteCache, ChrNoteKeys(noteCache, set))
          /\ ivlCache' = StoreIntervals(ivlCache, ChrIntervalKeys(noteCache, set))
    /\ UNCHANGED engine

\* PcSet.modes(set, normalize)
PcsetModes ==
    /\ call.op = "load"
    /\ \E set \in PcsetInputs, normalize \in Normalize :
          /\ call' = [op |-> "PcSet.modes", set |-> set, normalize |-> normalize]
          /\ result' = modes(noteCache, ivlCache, set, normalize)
          /\ noteCache' = StoreNotes(noteCache, ChrNoteKeys(noteCache, set))
          /\ ivlCache' = StoreIntervals(ivlCache, ChrIntervalKeys(noteCache, set))
    /\ UNCHANGED engine

\* building a dictionary from a table parses its tokens; scale and chord are built on load
BuildNoteCache(d) == IF IsBuiltin(d) THEN noteCache ELSE StoreNotes(noteCache, ChrNoteKeys(noteCache, TokenArr(d.table)))
BuildIvlCache(d) == IF IsBuiltin(d) THEN ivlCache ELSE StoreIntervals(ivlCache, ChrIntervalKeys(noteCache, TokenArr(d.table)))

\* dict(name), for scale, chord or dictionary(table)
DictLookup ==
    /\ call.op = "load"
    /\ \E d \in Dictionaries : \E n \in LookupNames(d) :
          /\ call' = [op |-> "dict", dict |-> d, name |-> n]
          /\ result' = lookup(DictionaryOf(d), n)
          /\ noteCache' = BuildNoteCache(d)
          /\ ivlCache' = BuildIvlCache(d)
    /\ UNCHANGED engine

\* dict.names(p)
DictNames ==
    /\ call.op = "load"
    /\ \E d \in Dictionaries : \E p \in Filters(d) :
          /\ call' = [op |-> "dict.names", dict |-> d, filter |-> p]
          /\ result' = names(DictionaryOf(d), p)
          /\ noteCache' = BuildNoteCache(d)
          /\ ivlCache' = BuildIvlCache(d)
    /\ UNCHANGED engine

\* Detect.chord(notes)
DetectChord ==
    /\ call.op = "load"
    /\ \E notes \in NoteSeqs :
          /\ call' = [op |-> "Detect.chord", notes |-> notes]
          /\ result' = chord1(engine, noteCache, ivlCache, StrSeq(notes))
          /\ noteCache' = StoreNotes(noteCache, DetectNoteKeys(engine, noteCache, StrSeq(notes)))
          /\ ivlCache' = StoreIntervals(ivlCache, DetectIntervalKeys(engine, noteCache, StrSeq(notes)))
    /\ UNCHANGED engine

\* Detect.scale(notes)
DetectScale ==
    /\ call.op = "load"
    /\ \E notes \in NoteSeqs :
          /\ call' = [op |-> "Detect.scale", notes |-> notes]
          /\ result' = scale1(engine, noteCache, ivlCache, StrSeq(notes))
          /\ noteCache' = StoreNotes(noteCache, DetectNoteKeys(engine, noteCache, StrSeq(notes)))
          /\ ivlCache' = StoreIntervals(ivlCache, DetectIntervalKeys(engine, noteCache, StrSeq(notes)))
    /\ UNCHANGED engine

\* the dictionaries given to combine: scale and chord, or two tables of one entry
CombineDictionaries ==
    {[builtin |-> "scale"], [builtin |-> "chord"]} \cup {[table |-> t] : t \in TablesFrom(1, 1) \ {<<>>}}
CombinePairs == {ab \in CombineDictionaries \X CombineDictionaries : IsBuiltin(ab[1]) = IsBuiltin(ab[2])}

\* the caches after dictionary(a) and dictionary(b) are built
CombineNoteCache(a, b) ==
    StoreNotes(BuildNoteCache(a), IF IsBuiltin(b) THEN {} ELSE ChrNoteKeys(BuildNoteCache(a), TokenArr(b.table)))
CombineIvlCache(a, b) ==
    StoreIntervals(BuildIvlCache(a), IF IsBuiltin(b) THEN {} ELSE ChrIntervalKeys(BuildNoteCache(a), TokenArr(b.table)))

\* combine(a, b)(name)
DictCombine ==
    /\ call.op = "load"
    /\ \E ab \in CombinePairs : \E n \in LookupNames(ab[1]) \cup LookupNames(ab[2]) :
          /\ call' = [op |-> "combine", a |-> ab[1], b |-> ab[2], name |-> n]
          /\ result' = combine_lookup(DictionaryOf(ab[1]), DictionaryOf(ab[2]), n)
          /\ noteCache' = CombineNoteCache(ab[1], ab[2])
          /\ ivlCache' = CombineIvlCache(ab[1], ab[2])
    /\ UNCHANGED engine

\* combine(a, b).names(p)
DictCombineNames ==
    /\ call.op = "load"
    /\ \E ab \in CombinePairs : \E p \in Filters(ab[1]) \cup Filters(ab[2]) :
          /\ call' = [op |-> "combine.names", a |-> ab[1], b |-> ab[2], filter |-> p]
          /\ result' = combine_names(DictionaryOf(ab[1]), DictionaryOf(ab[2]), p)
          /\ noteCache' = CombineNoteCache(ab[1], ab[2])
          /\ ivlCache' = CombineIvlCache(ab[1], ab[2])
    /\ UNCHANGED engine

\* the arguments of rotate: a number of rotations either way, a short list
MaxTimes == 4
MaxRotateLen == 3
RotateItems == {"C", "D", "E"}
RotateLists == SeqsUpTo(RotateItems, MaxRotateLen)

\* Array.rotate(times, arr): slice and concat build a new array and leave
\* arr as it is; call.left is arr as the call leaves it
ArrayRotate ==
    /\ call.op = "load"
    /\ \E times \in (-MaxTimes)..MaxTimes : \E arr \in RotateLists :
          /\ call' = [op |-> "Array.rotate", times |-> times, arr |-> Arr(arr), left |-> Arr(arr)]
          /\ result' = Arr(rotate(times, arr))
    /\ UNCHANGED <<noteCache, ivlCache, engine>>

\* the strings parsed one call after another: notes, intervals, a string
\* the tables have cached already, names neither parser knows
ParsedAgain == {"C4", "bb2", "9m", "3P", "3M", "x", "constructor", "m\n"}

\* Note.props(str), after any calls of the two parsers
NoteParse ==
    /\ call.op \in {"load", "Note.parse", "Interval.parse"}
    /\ \E s \in ParsedAgain :
          /\ call' = [op |-> "Note.parse", str |-> s]
          /\ result' = props(noteCache, Str(s))
          /\ noteCache' = memoStore(noteCache, Str(s))
    /\ UNCHANGED <<ivlCache, engine>>

\* Interval.props(str), after any calls of the two parsers
IntervalParse ==
    /\ call.op \in {"load", "Note.parse", "Interval.parse"}
    /\ \E s \in ParsedAgain :
          /\ call' = [op |-> "Interval.parse", str |-> s]
          /\ result' = props1(ivlCache, Str(s))
          /\ ivlCache' = props1Store(ivlCache, Str(s))
    /\ UNCHANGED <<noteCache, engine>>

\* callers whose first calls on one key no call has parsed yet interleave;
\* cache[str] || (cache[str] = fn(str)) is a read of cache[str], a call of
\* fn and a store into cache[str]
MaxCallers == 2
Callers == 1..MaxCallers
RaceKeys == {s \in ParsedAgain : s \notin DOMAIN LoadedNoteCache \cup DOMAIN LoadedIvlCache}
RaceCache == IF call.parser = "Note.parse" THEN noteCache ELSE ivlCache
RaceStored(cache) ==
    /\ noteCache' = IF call.parser = "Note.parse" THEN cache ELSE noteCache
    /\ ivlCache' = IF call.parser = "Note.parse" THEN ivlCache ELSE cache
CachePut(cache, key, v) == [k \in DOMAIN cache \cup {key} |-> IF k = key THEN v ELSE cache[k]]

\* the callers enter props(str) or props$1(str)
RaceEnter ==
    /\ call.op = "load"
    /\ \E parser \in {"Note.parse", "Interval.parse"} : \E s \in RaceKeys :
          call' = [op |-> "race", parser |-> parser, str |-> s,
                   at |-> [c \in Callers |-> "read"], fn |-> [c \in Callers |-> undefined]]
    /\ result' = [c \in Callers |-> undefined]
    /\ UNCHANGED <<noteCache, ivlCache, engine>>

\* cache[str] || ...: a truthy value found is returned
RaceRead(c) ==
    /\ call.op = "race" /\ call.at[c] = "read"
    /\ IF Truthy(GetOwnOrInherited(RaceCache, call.str))
       THEN /\ call' = [call EXCEPT !.at[c] = "returned"]
            /\ result' = [result EXCEPT ![c] = GetOwnOrInherited(RaceCache, call.str)]
       ELSE /\ call' = [call EXCEPT !.at[c] = "call"]
            /\ UNCHANGED result
    /\ UNCHANGED <<noteCache, ivlCache, engine>>

\* fn(str): properties or properties$1; a throw leaves the call
RaceCall(c) ==
    /\ call.op = "race" /\ call.at[c] = "call"
    /\ IF call.parser = "Note.parse" /\ Throws(properties(Str(call.str)))
       THEN /\ call' = [call EXCEPT !.at[c] = "returned"]
            /\ result' = [result EXCEPT ![c] = Throw]
       ELSE /\ call' = [call EXCEPT !.at[c] = "store",
                                     !.fn[c] = IF call.parser = "Note.parse" THEN properties(Str(call.str))
                                               ELSE properties1(call.str)]
            /\ UNCHANGED result
    /\ UNCHANGED <<noteCache, ivlCache, engine>>

\* cache[str] = fn(str), the value of the assignment returned
RaceStore(c) ==
    /\ call.op = "race" /\ call.at[c] = "store"
    /\ call' = [call EXCEPT !.at[c] = "returned"]
    /\ result' = [result EXCEPT ![c] = call.fn[c]]
    /\ RaceStored(CachePut(RaceCache, call.str, call.fn[c]))
    /\ UNCHANGED engine

NextParse == NoteProps \/ IntervalProps
NextPcset == PcsetChroma \/ PcsetModes
NextDict == DictLookup \/ DictNames
NextDetect == DetectChord \/ DetectScale
NextCombine == DictCombine \/ DictCombineNames
NextCache == NoteParse \/ IntervalParse
NextRace == RaceEnter \/ \E c \in Callers : RaceRead(c) \/ RaceCall(c) \/ RaceStore(c)
Next == \/ NextParse \/ NextPcset \/ NextDict \/ NextDetect \/ NextCombine
        \/ ArrayRotate \/ NextCache \/ NextRace

Spec == Init /\ [][Next]_vars
SpecParse == Init /\ [][NextParse]_vars
SpecPcset == Init /\ [][NextPcset]_vars
SpecDict == Init /\ [][NextDict]_vars
SpecDetect == Init /\ [][NextDetect]_vars
SpecCombine == Init /\ [][NextCombine]_vars
SpecRotate == Init /\ [][ArrayRotate]_vars
SpecCache == Init /\ [][NextCache]_vars
SpecRace == Init /\ [][NextRace]_vars


----------------------------------------------------------------------------
(* The documented behaviour of the parsers and of the encoder               *)

\* the note grammar: a letter, accidentals of one kind, a signed integer
\* octave; what follows them is the modifier
GrammarLetterEnd(s) == IF s # "" /\ CharAt(s, 1) \in Letters THEN 2 ELSE 1
GrammarAccEnd(s) ==
    LET p == GrammarLetterEnd(s)
    IN  IF p <= Len(s) /\ CharAt(s, p) \in {"#", "b", "x"} THEN RunEnd(s, p, {CharAt(s, p)}) ELSE p
GrammarOctEnd(s) ==
    LET q == GrammarAccEnd(s)
        d == IF q <= Len(s) /\ CharAt(s, q) = "-" THEN q + 1 ELSE q
        e == RunEnd(s, d, Digits)
    IN  IF e > d THEN e ELSE q
GrammarModifier(s) == SubSeq(s, GrammarOctEnd(s), Len(s))
GrammarNoNote(s) == GrammarLetterEnd(s) = 1 \/ GrammarModifier(s) # ""

\* the interval grammar: (number, quality) or (quality, number), the
\* number a nonzero signed integer
GrammarQualities == {"P", "M", "m", "A", "AA", "AAA", "AAAA", "d", "dd", "ddd", "dddd"}
GrammarNumber(t) ==
    LET d == IF t # "" /\ CharAt(t, 1) \in {"+", "-"} THEN SubSeq(t, 2, Len(t)) ELSE t
    IN  d # "" /\ RunEnd(d, 1, Digits) > Len(d) /\ DigitsVal(d, 0) # 0
GrammarDegree(t) ==
    LET d == IF CharAt(t, 1) \in {"+", "-"} THEN SubSeq(t, 2, Len(t)) ELSE t
    IN  (DigitsVal(d, 0) - 1) % 7
GrammarSplits(s) ==
    {<<SubSeq(s, 1, i), SubSeq(s, i + 1, Len(s))>> : i \in 1..(Len(s) - 1)}
        \cup {<<SubSeq(s, i + 1, Len(s)), SubSeq(s, 1, i)>> : i \in 1..(Len(s) - 1)}
GrammarInterval(s) == \E nq \in GrammarSplits(s) : GrammarNumber(nq[1]) /\ nq[2] \in GrammarQualities
GrammarPerfectMajorable(s) ==
    \E nq \in GrammarSplits(s) : GrammarNumber(nq[1]) /\ nq[2] = "P" /\ GrammarDegree(nq[1]) \in {1, 2, 5, 6}

\* the chroma a token resolves to: the note's, else the interval's, else 0
Resolved(tok) ==
    LET n == properties(Str(tok))
        i == properties1(tok)
    IN  IF ~Throws(n) /\ IsNum(n.chroma) THEN n.chroma.number
        ELSE IF IsNum(i.chroma) THEN i.chroma.number
        ELSE 0
ResolvedChromas(set) == {Resolved(set.array[i].string) : i \in 1..Len(set.array)}
IsFingerprint(v) == IsStr(v) /\ Len(v.string) = 12 /\ \A k \in 1..12 : CharAt(v.string, k) \in {"0", "1"}
EncodesChromas(v, cs) == IsFingerprint(v) /\ \A k \in 0..11 : CharAt(v.string, k + 1) = "1" <=> k \in cs
SameTokens(u, v) == {u.array[i] : i \in 1..Len(u.array)} = {v.array[i] : i \in 1..Len(v.array)}

\* the fingerprint documented for a set: itself, or the encoding of its tokens
Encoded(set) == IF IsStr(set) THEN set.string ELSE BitString({Num(c) : c \in ResolvedChromas(set)}, 0)
RotateLeft(fp, n) == SubSeq(fp, n + 1, Len(fp)) \o SubSeq(fp, 1, n)
Ones(fp) == {i \in 0..11 : CharAt(fp, i + 1) = "1"}
\* the k-th smallest element of a set of numbers
NthOf(S, k) == CHOOSE i \in S : Cardinality({j \in S : j < i}) = k - 1
NthOne(fp, k) == NthOf(Ones(fp), k)

\* C9: NoteParser.parse never throws, and returns the no-note sentinel
\* exactly when the input has no leading letter A-G (either case) or has a
\* non-empty modifier after the letter, accidentals and octave.
C9_ParseNeverThrows ==
    call.op = "Note.props" =>
        /\ ~Throws(result)
        /\ result = NO_NOTE <=> GrammarNoNote(call.str)

\* C10: IntervalParser.parse never throws, and returns the sentinel for
\* every string that is not in its entirety (number, quality) or (quality,
\* number), and for every majorable degree written with quality P.
C10_ParseNeverThrows ==
    call.op = "Interval.props" =>
        /\ ~Throws(result)
        /\ (~GrammarInterval(call.str) \/ GrammarPerfectMajorable(call.str)) => result = NO_IVL

\* C7: encode(tokens) is the fingerprint in which bit k is 1 exactly when
\* some token resolves to chroma k, and every sequence of the same tokens,
\* permuted or repeated, encodes to the same fingerprint.
C7_EncodeDependsOnChromas ==
    call.op = "PcSet.chroma" /\ IsArr(call.set) =>
        /\ EncodesChromas(result, ResolvedChromas(call.set))
        /\ \A u \in TokenSets : SameTokens(u, call.set) => chroma2(LoadedNoteCache, LoadedIvlCache, u) = result

\* C8: modes(set, false) is the 12 left-rotations of the encoded
\* fingerprint by 0..11 in order; modes(set, true) is those of them that
\* start with '1', in the same order: one for each '1' bit, the k-th
\* being the rotation by the position of the k-th '1' bit.
C8_ModesAreRotations ==
    call.op = "PcSet.modes" /\ (IsArr(call.set) \/ IsFingerprint(call.set)) =>
        /\ IsArr(result)
        /\ IF call.normalize = Bool(FALSE)
           THEN result.array = [i \in 1..12 |-> Str(RotateLeft(Encoded(call.set), i - 1))]
           ELSE result.array = [k \in 1..Cardinality(Ones(Encoded(call.set))) |->
                                   Str(RotateLeft(Encoded(call.set), NthOne(Encoded(call.set), k)))]

----------------------------------------------------------------------------
(* The documented behaviour of the detectors                                *)

IsDetect == call.op \in {"Detect.chord", "Detect.scale"}
DetectDictionary == IF call.op = "Detect.chord" THEN chord ELSE scale
DetectSeparator == IF call.op = "Detect.chord" THEN "" ELSE " "

\* a note string that parses to a note, its pitch class and its chroma
Parseable(s) == ~Throws(properties(Str(s))) /\ properties(Str(s)) # NO_NOTE
PcOf(s) == properties(Str(s)).pc.string
ChromaOf(s) == properties(Str(s)).chroma.number
AllParseable(notes) == \A i \in 1..Len(notes) : Parseable(notes[i])
DistinctChromas(notes) == \A i, j \in 1..Len(notes) : i # j => ChromaOf(notes[i]) # ChromaOf(notes[j])
ParseableOnly(notes) == SelectSeq(notes, Parseable)
Fingerprint(notes) == BitString({Num(ChromaOf(notes[i])) : i \in 1..Len(notes)}, 0)

\* the results documented for a fingerprint whose k-th normalized rotation
\* has the tonic tonics[k]: one for each rotation that has a name
Named(fp) == {k \in 1..Cardinality(Ones(fp)) :
                Len(names(DetectDictionary, Str(RotateLeft(fp, NthOne(fp, k)))).array) # 0}
Results(tonics, fp) ==
    [m \in 1..Cardinality(Named(fp)) |->
        LET k == NthOf(Named(fp), m)
        IN  Str(tonics[k] \o DetectSeparator
                  \o names(DetectDictionary, Str(RotateLeft(fp, NthOne(fp, k)))).array[1].string)]

\* the pitch class of the input that has a chroma
PcOfChroma(notes, c) == PcOf(notes[CHOOSE i \in 1..Len(notes) : ChromaOf(notes[i]) = c])
TonicsByChroma(notes) ==
    [k \in 1..Cardinality(Ones(Fingerprint(notes))) |-> PcOfChroma(notes, NthOne(Fingerprint(notes), k))]

\* the pitch classes as the detector sorts them, and the first of every chroma among them
SortedPcs(notes) ==
    LET sorted == sort(engine, LoadedNoteCache, [i \in 1..Len(notes) |-> Str(PcOf(notes[i]))]).array
    IN  [i \in 1..Len(sorted) |-> sorted[i].string]
FirstOfChroma(pcs) == {i \in 1..Len(pcs) : \A j \in 1..(i - 1) : ChromaOf(pcs[j]) # ChromaOf(pcs[i])}
Deduplicated(pcs) == [k \in 1..Cardinality(FirstOfChroma(pcs)) |-> pcs[NthOf(FirstOfChroma(pcs), k)]]

\* C1: for parseable notes of pairwise distinct chromas, in any order, the
\* tonic reported with the i-th normalized rotation is the input pitch
\* class whose chroma is the bit position at which that rotation starts.
C1_TonicStartsRotation ==
    IsDetect /\ AllParseable(call.notes) /\ DistinctChromas(call.notes) =>
        result = Arr(Results(TonicsByChroma(call.notes), Fingerprint(call.notes)))

\* C2: the pitch classes are deduplicated before they are paired with the
\* rotations: for parseable notes, repeated or of equal chroma, the i-th
\* normalized rotation is paired with the i-th distinct pitch class.
C2_TonicsDeduplicated ==
    IsDetect /\ AllParseable(call.notes) =>
        result = Arr(Results(Deduplicated(SortedPcs(call.notes)), Fingerprint(call.notes)))

\* C3: detect returns one result for each normalized rotation that has a
\* name in the dictionary, in rotation order, and none for any other: the
\* tonic paired with the rotation followed by the first of its names.
C3_OneResultPerNamedRotation ==
    IsDetect =>
        result = Arr(Results(SortedPcs(ParseableOnly(call.notes)), Fingerprint(ParseableOnly(call.notes))))

\* the detector called, on other notes
DetectOf(notes) ==
    IF call.op = "Detect.chord" THEN chord1(engine, LoadedNoteCache, LoadedIvlCache, StrSeq(notes))
    ELSE scale1(engine, LoadedNoteCache, LoadedIvlCache, StrSeq(notes))

\* C4: detect never raises, unparseable entries do not change its result,
\* and an input without a parseable note gives an empty result.
C4_DetectNeverRaises ==
    IsDetect =>
        /\ ~Throws(result)
        /\ result = DetectOf(ParseableOnly(call.notes))
        /\ ParseableOnly(call.notes) = <<>> => result = Arr(<<>>)

----------------------------------------------------------------------------
(* The documented behaviour of the dictionaries                             *)

\* the registrations of a table: <<i, 0>> for the key of its i-th entry,
\* <<i, j>> for the j-th alias of that entry
Registrations(raw) == UNION {{<<i, j>> : j \in 0..Len(raw[i][3])} : i \in 1..Len(raw)}
NameAt(raw, r) == IF r[2] = 0 THEN raw[r[1]][1] ELSE raw[r[1]][3][r[2]]
RegisteredOnce(raw, n) == Cardinality({r \in Registrations(raw) : NameAt(raw, r) = n}) = 1
Precedes(raw, r, s) == StrLess(raw[r[1]][1], raw[s[1]][1]) \/ (r[1] = s[1] /\ r[2] < s[2])
Authored(raw, i) == StrArr(Split(raw[i][2]))

\* the fingerprint of every entry of a table
RowFingerprints(raw) == {<<i, Encoded(Authored(raw, i))>> : i \in 1..Len(raw)}
ScaleFingerprints == RowFingerprints(sdata)
ChordFingerprints == RowFingerprints(cdata)
FingerprintsOf(d) ==
    IF IsBuiltin(d) THEN (IF d.builtin = "scale" THEN ScaleFingerprints ELSE ChordFingerprints)
    ELSE RowFingerprints(d.table)
RowFingerprint(d, i) == (CHOOSE f \in FingerprintsOf(d) : f[1] = i)[2]

\* the entries that list a name among their aliases
AliasOf(raw, a) == {i \in 1..Len(raw) : \E j \in 1..Len(raw[i][3]) : raw[i][3][j] = a}
Elements(arr) == {arr.array[i] : i \in 1..Len(arr.array)}

\* C5 as documented: for every alias a of a canonical name n, lookup(a)
\* equals lookup(n), the interval list authored for n, and both names are
\* in names(fingerprint(n)).
C5_AliasEquivalence ==
    call.op = "dict" =>
        \A i \in AliasOf(TableOf(call.dict), call.name) :
            /\ result = lookup(DictionaryOf(call.dict), TableOf(call.dict)[i][1])
            /\ result = Authored(TableOf(call.dict), i)
            /\ {Str(call.name), Str(TableOf(call.dict)[i][1])}
                  \subseteq Elements(names(DictionaryOf(call.dict), Str(RowFingerprint(call.dict, i))))

\* C5: for every alias a of a canonical name n, neither of them registered
\* by another entry of the table, lookup(a) equals lookup(n), the interval
\* list authored for n; and every alias and its canonical name are in
\* names(fingerprint(n)).
C5_AliasEquivalenceOfUniqueNames ==
    call.op = "dict" =>
        \A i \in AliasOf(TableOf(call.dict), call.name) :
            /\ (RegisteredOnce(TableOf(call.dict), call.name) /\ RegisteredOnce(TableOf(call.dict), TableOf(call.dict)[i][1])) =>
                  /\ result = lookup(DictionaryOf(call.dict), TableOf(call.dict)[i][1])
                  /\ result = Authored(TableOf(call.dict), i)
            /\ {Str(call.name), Str(TableOf(call.dict)[i][1])}
                  \subseteq Elements(names(DictionaryOf(call.dict), Str(RowFingerprint(call.dict, i))))

\* an alias registered once, of a canonical name registered once, is looked up
C5_AliasLookedUp ==
    /\ call.op = "dict"
    /\ IsArr(result)
    /\ \E i \in AliasOf(TableOf(call.dict), call.name) :
          RegisteredOnce(TableOf(call.dict), call.name) /\ RegisteredOnce(TableOf(call.dict), TableOf(call.dict)[i][1])

\* the registrations under a fingerprint
RegisteredUnder(d, fp) == {r \in Registrations(TableOf(d)) : RowFingerprint(d, r[1]) = fp}

\* C6: names(fingerprint) is the names registered with an interval list of
\* that fingerprint, in registration order: the canonical names in sorted
\* key order, each followed by its aliases as authored, so that a result
\* that is not empty starts with a canonical name; names(true) is all
\* canonical and alias names; names() is the canonical names, sorted.
C6_NamesByFilter ==
    call.op = "dict.names" =>
        /\ IsArr(result)
        /\ IsFingerprint(call.filter) =>
              LET R == RegisteredUnder(call.dict, call.filter.string)
              IN  /\ Len(result.array) = Cardinality(R)
                  /\ \A r \in R : result.array[1 + Cardinality({s \in R : Precedes(TableOf(call.dict), s, r)})]
                                      = Str(NameAt(TableOf(call.dict), r))
                  /\ R # {} => \E i \in 1..Len(TableOf(call.dict)) : result.array[1] = Str(TableOf(call.dict)[i][1])
        /\ call.filter = Bool(TRUE) => Elements(result) = {Str(n) : n \in RegisteredNames(TableOf(call.dict))}
        /\ call.filter = undefined =>
              /\ Elements(result) = {Str(TableOf(call.dict)[i][1]) : i \in 1..Len(TableOf(call.dict))}
              /\ Len(result.array) = Len(TableOf(call.dict))
              /\ \A i \in 1..(Len(result.array) - 1) : StrLess(result.array[i].string, result.array[i + 1].string)

\* the names of a fingerprint that two entries of a table share, one of them with an alias, are listed
C6_NamesOfSharedFingerprint ==
    /\ call.op = "dict.names"
    /\ IsFingerprint(call.filter)
    /\ IsArr(result)
    /\ Len(result.array) >= 3
    /\ \E r, s \in RegisteredUnder(call.dict, call.filter.string) : r[1] # s[1] /\ r[2] > 0

----------------------------------------------------------------------------
(* The documented relations of the parsers                                  *)

\* C11: for every valid note string x (a letter in either case, a run of
\* accidentals, x standing for ##, and an optional signed octave), parsing
\* the name of parse(x) gives a Note with the same properties as parse(x).
C11_NameRoundTrip ==
    call.op = "Note.props" /\ ~GrammarNoNote(call.str) =>
        /\ IsStr(Get(result, "name"))
        /\ props(noteCache, Get(result, "name")) = result

\* a valid note string with an octave whose name is written differently has been parsed
C11_RenamedNoteParsed ==
    /\ call.op = "Note.props" /\ ~GrammarNoNote(call.str)
    /\ IsStr(Get(result, "name")) /\ Get(result, "name") # Str(call.str)
    /\ IsNum(Get(result, "oct"))

\* C12: encode(fp) = fp for every 12-character binary string fp; the
\* output of encode on every token sequence is 12 characters of '0' and
\* '1', so encoding it again returns it unchanged.
C12_EncodeIsIdempotent ==
    call.op = "PcSet.chroma" =>
        /\ IsFingerprint(call.set) => result = call.set
        /\ IsArr(call.set) => IsFingerprint(result) /\ chroma2(noteCache, ivlCache, result) = result

----------------------------------------------------------------------------
(* The documented behaviour of combine                                      *)

\* C13: combine(a, b).lookup(name) is a.lookup(name) when that is present
\* and b.lookup(name) otherwise; combine(a, b).names(filter) is
\* a.names(filter) followed by b.names(filter), no name removed, so its
\* length is the sum of the two lengths.
C13_CombineIsUnionView ==
    /\ call.op = "combine" =>
          result = IF lookup(DictionaryOf(call.a), call.name) # undefined
                   THEN lookup(DictionaryOf(call.a), call.name)
                   ELSE lookup(DictionaryOf(call.b), call.name)
    /\ call.op = "combine.names" =>
          /\ IsArr(result)
          /\ result.array = names(DictionaryOf(call.a), call.filter).array \o names(DictionaryOf(call.b), call.filter).array
          /\ Len(result.array) = Len(names(DictionaryOf(call.a), call.filter).array)
                                    + Len(names(DictionaryOf(call.b), call.filter).array)


\* the semitone sizes of the diatonic steps, and the documented
\* (type, quality) table; no row for M or m on a perfectable degree
BaseSize == <<0, 2, 4, 5, 7, 9, 11>>
IsInt(v) == IsNum(v) /\ v.number \in Int
IsInterval(v) == "semitones" \in DOMAIN v /\ v # NO_IVL
TableAlteration(type, q) ==
    IF type = "M" /\ q = "M" THEN Num(0)
    ELSE IF type = "P" /\ q = "P" THEN Num(0)
    ELSE IF type = "M" /\ q = "m" THEN Num(-1)
    ELSE IF q \in {"A", "AA", "AAA", "AAAA"} THEN Num(Len(q))
    ELSE IF q \in {"d", "dd", "ddd", "dddd"} THEN (IF type = "P" THEN Num(-Len(q)) ELSE Num(-Len(q) - 1))
    ELSE undefined
IntervalNumbersAgree(i) ==
    /\ IsInt(i.num) /\ IsInt(i.step) /\ i.step.number \in 0..6
    /\ IsStr(i.type) /\ IsStr(i.q) /\ IsInt(i.dir) /\ IsInt(i.oct)
    /\ IsInt(i.alt) /\ i.alt = TableAlteration(i.type.string, i.q.string)
    /\ i.semitones = Num(i.dir.number * (BaseSize[i.step.number + 1] + i.alt.number + 12 * i.oct.number))
    /\ IsInt(i.chroma) /\ i.chroma.number \in 0..11
    /\ (i.semitones.number - i.chroma.number) % 12 = 0
    /\ i.simple = IF Abs(i.num.number) = 8 THEN i.num ELSE Num(i.dir.number * (i.step.number + 1))

\* C14: every Interval other than the sentinel has the alteration of the
\* (type, quality) table, semitones = dir * (base[step] + alt + 12 * oct),
\* a chroma in 0..11 congruent to its semitones, and the simple number
\* num when |num| = 8 and dir * (step + 1) otherwise; 4P has 5 semitones
\* and 9m has the simple number 2.
C14_IntervalNumbers ==
    call.op = "Interval.props" =>
        /\ IsInterval(result) => IntervalNumbersAgree(result)
        /\ call.str = "4P" => result.semitones = Num(5)
        /\ call.str = "9m" => result.simple = Num(2)


\* the documented numbers of a note, from its letter, accidentals and octave
IsNote(v) == "letter" \in DOMAIN v /\ v # NO_NOTE
LetterStep(l) == CHOOSE i \in 0..6 : CharAt("CDEFGAB", i + 1) = l
Count(s, c) == Cardinality({i \in 1..Len(s) : CharAt(s, i) = c})
NoteNumbersAgree(n) ==
    /\ n.step = Num(LetterStep(n.letter.string))
    /\ n.alt = Num(Count(n.acc.string, "#") - Count(n.acc.string, "b"))
    /\ IsInt(n.chroma) /\ n.chroma.number \in 0..11
    /\ n.chroma.number = (BaseSize[n.step.number + 1] + n.alt.number) % 12
    /\ n.oct = null \/ IsInt(n.oct)
    /\ n.oct = null <=> n.octStr = Str("")
    /\ n.oct = null => n.midi = null
    /\ IsInt(n.oct) =>
          /\ n.midi = Num(BaseSize[n.step.number + 1] + n.alt.number + 12 * (n.oct.number + 1))
          /\ n.midi.number % 12 = n.chroma.number

\* C15: every Note other than the sentinel has the step 0..6 of its letter
\* C..B, the alteration +N for N sharps and -N for N flats, the chroma
\* (base[step] + alt) mod 12 in 0..11, an integer octave or none, and the
\* midi number base[step] + alt + 12 * (oct + 1) exactly when it has an
\* octave; "bb2" has pitch class Bb, chroma 10 and octave 2, "a4" has midi 69.
C15_NoteNumbers ==
    call.op = "Note.props" =>
        /\ IsNote(result) => NoteNumbersAgree(result)
        /\ call.str = "bb2" => result.pc = Str("Bb") /\ result.chroma = Num(10) /\ result.oct = Num(2)
        /\ call.str = "a4" => result.midi = Num(69)


----------------------------------------------------------------------------
(* The documented behaviour of rotate *)

\* the number of elements a rotation by times moves to the end of n elements
Moved(times, n) == ((times % n) + n) % n

\* C16: rotate(times, arr) has the length of arr and is arr with its first
\* ((times mod n) + n) mod n elements moved to the end, the order of the
\* elements kept, for every integer times; an empty arr gives an empty
\* result; arr itself is left as it was.
C16_RotateMovesPrefix ==
    call.op = "Array.rotate" =>
        /\ IsArr(result) /\ Len(result.array) = Len(call.arr.array)
        /\ \A i \in 1..Len(call.arr.array) :
              result.array[i] =
                  call.arr.array[((i - 1 + Moved(call.times, Len(call.arr.array))) % Len(call.arr.array)) + 1]
        /\ call.left = call.arr
C16_NegativeRotation ==
    /\ call.op = "Array.rotate" /\ call.times < -3
    /\ call.arr = Arr(<<"C", "D", "E">>) /\ result = Arr(<<"E", "C", "D">>)


----------------------------------------------------------------------------
(* The documented behaviour of the parse caches *)

\* what a parser derives from a string when nothing is cached
Derived(parser, s) == IF parser = "Note.parse" THEN properties(Str(s)) ELSE properties1(s)
EntriesDerived == 
    /\ \A k \in DOMAIN noteCache : noteCache[k] = properties(Str(k))
    /\ \A k \in DOMAIN ivlCache : ivlCache[k] = properties1(k)
EntriesKept ==
    /\ \A k \in DOMAIN noteCache : k \in DOMAIN noteCache' /\ noteCache'[k] = noteCache[k]
    /\ \A k \in DOMAIN ivlCache : k \in DOMAIN ivlCache' /\ ivlCache'[k] = ivlCache[k]

\* C17: after any sequence of calls of the two parsers, a call returns what
\* the parser derives from its string with nothing cached, whatever was
\* parsed before; every cache entry is the derivation of its key, and an
\* entry once written is neither changed nor removed.
C17_CacheIsTransparent ==
    /\ [](call.op \in {"Note.parse", "Interval.parse"} => result = Derived(call.op, call.str))
    /\ []EntriesDerived
    /\ [][EntriesKept]_vars


\* C18: when callers interleave their first calls on one key that nothing
\* has parsed before, reading the cache, deriving and storing as separate
\* steps, every caller that has returned holds the derivation of the key,
\* the cache entry of the key, whenever there is one, is that derivation,
\* and once all have returned the entry is there.
C18_RaceIsBenign ==
    call.op = "race" =>
        /\ \A c \in Callers : call.at[c] = "returned" => result[c] = Derived(call.parser, call.str)
        /\ call.str \in DOMAIN RaceCache => RaceCache[call.str] = Derived(call.parser, call.str)
        /\ (\A c \in Callers : call.at[c] = "returned") => call.str \in DOMAIN RaceCache

====
